---------------------------- MODULE Spec2Model ----------------------------
(***************************************************************************)
(* Football Performance Model (src/app.py): the scoring pipeline of the    *)
(* Streamlit application and the session state it keeps.                   *)
(*                                                                         *)
(* Numbers.  The program computes in floating point; the model computes    *)
(* the same expressions exactly, in fixed point:                           *)
(*   - a quality cell (DQ, EQ, CD, TA, LOP) is held in tenths (5.5 = 55);  *)
(*   - a CAV is held in units of 1/CavUnit (1/160: 6.3125 = 1010);         *)
(*   - AQC is held in units of 1/(CavUnit*MeanUnit) and HIS (a percent) in *)
(*     units of 1/MeanUnit, MeanUnit being a common multiple of the log    *)
(*     lengths, so that the division by len(rdf) is exact;                 *)
(*   - a role weight and OM are held in twentieths (0.15 = 3, 1.0 = 20);   *)
(*   - a Rating input is held in units of 1/RatingUnit (1/30000);          *)
(*   - an MPR is held in units of 1/MprUnit (1/12000000).                  *)
(* Rounding error of the floating point evaluation is not modelled.        *)
(*                                                                         *)
(* An optional value (a session key that may be absent, a result not yet   *)
(* computed, a conversion that raises) is a sequence of length 0 or 1.     *)
(***************************************************************************)
EXTENDS Integers, Sequences, FiniteSets, TLC

VARIABLES
    active_player,  \* sidebar selectbox "Player": "None" or a player name
    m_label,        \* sidebar selectbox "Match": "None" or a match label
    match_data,     \* st.session_state.match_data: the action log, a sequence of rows
    calc_aqc,       \* st.session_state.calc_aqc: absent <<>> or <<AQC>>
    calc_his,       \* st.session_state.calc_his: absent <<>> or <<HIS>>
    rating,         \* the values of the Rating tab's widgets
    final,          \* the Rating tab's result of the last run: <<>> or <<MPR>>
    general_mprs,   \* st.session_state.general_mprs: the MPR history
    now,            \* the clock read by datetime.now()
    stats,          \* st.session_state.stats: key -> stat record
    last_update,    \* history variable: (player, match id) -> the goals and assists
                    \* of the pair's latest Update not deleted since, or <<>>
    row,            \* argument of a call of calculate_cav
    cav             \* its result: <<>> before the call, <<CAV>> after

vars == <<active_player, m_label, match_data, calc_aqc, calc_his, rating, final,
          general_mprs, now, stats, last_update, row, cav>>

---------------------------------------------------------------------------
(* Bounds of the model.                                                    *)

MaxLog == 3
MaxHist == 2
MaxClock == 3
MaxStats == 2
MaxGoals == 5

---------------------------------------------------------------------------
(* Arithmetic helpers.                                                     *)

Min(a, b) == IF b < a THEN b ELSE a

RECURSIVE Gcd(_, _)
Gcd(a, b) == IF b = 0 THEN a ELSE Gcd(b, a % b)

RECURSIVE LcmUpTo(_)
LcmUpTo(n) == IF n <= 1 THEN 1 ELSE LET l == LcmUpTo(n - 1) IN (l * n) \div Gcd(l, n)

---------------------------------------------------------------------------
(* Cells of a row: a number, a string, or None.                            *)

Num(n) == [k |-> "num", v |-> n, s |-> ""]
Str(t) == [k |-> "str", v |-> 0, s |-> t]
Null == [k |-> "null", v |-> 0, s |-> ""]

\* float(str): the strings the model uses, in tenths; any other string raises.
ParseFloat(t) ==
    CASE t = "8.5" -> <<85>>
      [] t = "7" -> <<70>>
      [] OTHER -> <<>>

\* float(x): the number itself, the parsed string, or an exception (<<>>):
\* TypeError for None, ValueError for a string that is no number.
Float(c) ==
    CASE c.k = "num" -> <<c.v>>
      [] c.k = "str" -> ParseFloat(c.s)
      [] OTHER -> <<>>

\* row.get(key, default)
Get(r, key, default) == IF key \in DOMAIN r THEN r[key] ELSE default

---------------------------------------------------------------------------
(* calculate_cav                                                           *)

CavUnit == 8 * 2 * 10
NEUTRAL_FIELD == 55
NEUTRAL_CAV == (55 * CavUnit) \div 10
CAP_TYPE_A == 4 * CavUnit
CAP_TYPE_B == (83 * CavUnit) \div 10
CAP_TYPE_C == 7 * CavUnit
CAP_NONE == 10 * CavUnit

QualityFields == {"DQ", "EQ", "CD", "TA", "LOP"}
Columns == {"Phase", "DQ", "EQ", "CD", "TA", "LOP", "Mistake Type"}

\* raw = (2*dq + 2*eq + 1.5*cd + 1.5*ta + 1*lop) / 8, fields in tenths, result
\* in 1/CavUnit: CavUnit * raw = 20*(2*dq10 + 2*eq10 + 1.5*cd10 + 1.5*ta10 + lop10)/10.
RawScore(dq, eq, cd, ta, lop) ==
    ((2 * 2 * dq + 2 * 2 * eq + 3 * cd + 3 * ta + 2 * 1 * lop) * CavUnit) \div (2 * 8 * 10)

\* The cap chain with every branch 10.0: no mistake caps the score.
CapAlways10(m_type) == CAP_NONE

\* The cap chain with the values of Type B and Type C exchanged.
CapSwappedBC(m_type) ==
    IF m_type.k = "str" /\ m_type.s = "Type A (Decision)" THEN CAP_TYPE_A
    ELSE IF m_type.k = "str" /\ m_type.s = "Type B (Execution)" THEN CAP_TYPE_C
    ELSE IF m_type.k = "str" /\ m_type.s = "Type C (Forced)" THEN CAP_TYPE_B
    ELSE CAP_NONE

\* cap = 4.0 if Type A else 8.3 if Type B else 7.0 if Type C else 10.0
CapFor(m_type) ==
    IF m_type.k = "str" /\ m_type.s = "Type A (Decision)" THEN CAP_TYPE_A
    ELSE IF m_type.k = "str" /\ m_type.s = "Type B (Execution)" THEN CAP_TYPE_B
    ELSE IF m_type.k = "str" /\ m_type.s = "Type C (Forced)" THEN CAP_TYPE_C
    ELSE CAP_NONE

calculate_cav(r) ==
    LET dq == Float(Get(r, "DQ", Num(NEUTRAL_FIELD)))
        eq == Float(Get(r, "EQ", Num(NEUTRAL_FIELD)))
        cd == Float(Get(r, "CD", Num(NEUTRAL_FIELD)))
        ta == Float(Get(r, "TA", Num(NEUTRAL_FIELD)))
        lop == Float(Get(r, "LOP", Num(NEUTRAL_FIELD)))
    IN  IF <<>> \in {dq, eq, cd, ta, lop}
        THEN NEUTRAL_CAV                       \* except: return 5.5
        ELSE LET raw == RawScore(dq[1], eq[1], cd[1], ta[1], lop[1])
                 m_type == Get(r, "Mistake Type", Str("None"))
             IN  Min(raw, CapFor(m_type))

---------------------------------------------------------------------------
(* The tables of the session: players and matches (tabs 1 and 3, whose     *)
(* editing is outside the scoring pipeline, hold these rows throughout).   *)

Players == {"Silva", "Costa"}
Matches == {1, 2}

\* f"{int(r['Match ID'])}: {r['Opponent']} ({d_str})"
MatchLabel(id) == IF id = 1 THEN "1: Ajax (03-01)" ELSE "2: Porto (03-08)"

MatchLabels == {MatchLabel(id) : id \in Matches}

\* int(m_label.split(":")[0])
MatchIdOf(label) == CHOOSE id \in Matches : MatchLabel(id) = label

\* m_label, active_m_id = "None", None; set from the selectbox when a match is chosen
active_m_id == IF m_label = "None" THEN <<>> ELSE <<MatchIdOf(m_label)>>

---------------------------------------------------------------------------
(* get_calculated_om and the stats store                                   *)

OmUnit == 20

\* A key that leaves the match id out.
StatKeyPlayerOnly(p_name, m_id) == <<p_name, 0>>

\* k = f"{p_name}_m_{m_id}": m_id is an integer, so the text after the last
\* "_m_" is the match id and the text before it the player: the key is
\* one-to-one on (player, match id), which the pair stands for.
StatKey(p_name, m_id) == <<p_name, m_id>>

\* The multiplier without its cap of 1.5.
OmUncapped(g, a) == OmUnit + (g * OmUnit) \div 10 + (a * OmUnit) \div 20

\* min(1.0 + (g * 0.1) + (a * 0.05), 1.5)
OmOf(g, a) == Min(OmUnit + (g * OmUnit) \div 10 + (a * OmUnit) \div 20, (15 * OmUnit) \div 10)

get_calculated_om(p_name, m_id) ==
    IF p_name = "None" \/ m_id = <<>> THEN OmUnit
    ELSE LET k == StatKey(p_name, m_id[1])
         IN  IF k \in DOMAIN stats
             THEN OmOf(stats[k].Goals, stats[k].Assists)
             ELSE OmUnit

\* The record Update stores. Tournament, BCC, Dribbles and Timestamp are stored
\* too; they are only displayed and no operation reads them.
StatRecord(p, id, label, g, a) ==
    [Player |-> p, MatchID |-> id, Match |-> label, Goals |-> g, Assists |-> a]

\* f"{v['Player']} - {v.get('Match','?')} (G:{v.get('Goals',0)})"
StatLabel(v) == <<v.Player, v.Match, v.Goals>>

StatLabels == {StatLabel(stats[k]) : k \in DOMAIN stats}

\* lbl_to_key: a label of the store to the key of the record that shows it (a
\* match label starts with the match id, so no two records share a label).
lbl_to_key(l) == CHOOSE k \in DOMAIN stats : StatLabel(stats[k]) = l

---------------------------------------------------------------------------
(* ROLE_WEIGHTS and the Rating tab                                         *)

WeightUnit == 20
RatingUnit == 30000
MprUnit == RatingUnit * WeightUnit * OmUnit

Weights(a, h, e, t, i) == [wAQC |-> a, wHIS |-> h, wEC |-> e, wTII |-> t, wIBI |-> i]

WeightsOf(x) == (x * WeightUnit) \div 100

\* The weights are written in hundredths, as in the source, and held in twentieths.
ROLE_WEIGHTS ==
    [r \in {"CF / Striker", "Winger", "AM / 10", "CM / 8", "DM / 6"} |->
        CASE r = "CF / Striker" -> Weights(WeightsOf(15), WeightsOf(35), WeightsOf(10), WeightsOf(10), WeightsOf(30))
          [] r = "Winger"       -> Weights(WeightsOf(20), WeightsOf(30), WeightsOf(15), WeightsOf(10), WeightsOf(25))
          [] r = "AM / 10"      -> Weights(WeightsOf(25), WeightsOf(25), WeightsOf(15), WeightsOf(15), WeightsOf(20))
          [] r = "CM / 8"       -> Weights(WeightsOf(30), WeightsOf(15), WeightsOf(30), WeightsOf(20), WeightsOf(5))
          [] r = "DM / 6"       -> Weights(WeightsOf(35), WeightsOf(10), WeightsOf(35), WeightsOf(25), WeightsOf(0))]

Roles == DOMAIN ROLE_WEIGHTS

\* A number of the Rating tab, given in ten-thousandths.
R4(x) == x * (RatingUnit \div 10000)

RatingInput(role, m_aqc, m_his, m_ec, m_tii, m_ibi, om) ==
    [role |-> role, m_aqc |-> m_aqc, m_his |-> m_his, m_ec |-> m_ec,
     m_tii |-> m_tii, m_ibi |-> m_ibi, om |-> om]

\* The widgets' values on the first run: the first role, AQC 5.5, HIS 20.0 (no
\* calc_aqc, calc_his yet), EC 75.0, TII 50.0, IBI 10.0, OM 1.0 (no stat record).
DefaultRating ==
    RatingInput("CF / Striker", R4(55000), R4(200000), R4(750000), R4(500000),
                R4(100000), OmUnit)

\* The rating with AQC left on its [1, 10] scale (no * 10).
FinalWithoutNormalization(w, m_aqc, m_his, m_ec, m_tii, m_ibi, om) ==
    (w.wAQC * m_aqc + w.wHIS * m_his + w.wEC * m_ec + w.wTII * m_tii
        + w.wIBI * m_ibi) * om

\* final = (w['wAQC']*m_aqc*10 + w['wHIS']*m_his + w['wEC']*m_ec
\*          + w['wTII']*m_tii + w['wIBI']*m_ibi) * om
FinalMPR(w, m_aqc, m_his, m_ec, m_tii, m_ibi, om) ==
    (w.wAQC * m_aqc * 10 + w.wHIS * m_his + w.wEC * m_ec + w.wTII * m_tii
        + w.wIBI * m_ibi) * om

\* Tab 5 of one run: a warning and no result when no player is selected.
RatingTab(player, rt) ==
    IF player = "None" THEN <<>>
    ELSE <<FinalMPR(ROLE_WEIGHTS[rt.role], rt.m_aqc, rt.m_his, rt.m_ec,
                    rt.m_tii, rt.m_ibi, rt.om)>>

---------------------------------------------------------------------------
(* Tab 4: the action log and its aggregation                               *)

HIS_THRESHOLD == 7 * CavUnit

\* The unit of the mean: a common multiple of every length the log can have.
MeanUnit == LcmUpTo(MaxLog)

\* A row of the data editor: every column is present; a cell is a number, a
\* string or None (the frame's columns are object-typed, so an empty cell is None).
Action(dq, eq, cd, ta, lop, mistake) ==
    [c \in Columns |->
        CASE c = "Phase" -> Str("Attack")
          [] c = "DQ" -> dq
          [] c = "EQ" -> eq
          [] c = "CD" -> cd
          [] c = "TA" -> ta
          [] c = "LOP" -> lop
          [] c = "Mistake Type" -> mistake]

\* The rows a user enters in the model: the three actions of the documented
\* match, the second one again as a forced and as an execution mistake, and a
\* row whose DQ cell was left empty.
LogRows ==
    { Action(Num(70), Num(80), Num(50), Num(60), Num(40), Str("None")),
      Action(Num(90), Num(90), Num(80), Num(90), Num(70), Str("None")),
      Action(Num(40), Num(50), Num(60), Num(50), Num(60), Str("Type A (Decision)")),
      Action(Num(90), Num(90), Num(80), Num(90), Num(70), Str("Type C (Forced)")),
      Action(Num(90), Num(90), Num(80), Num(90), Num(70), Str("Type B (Execution)")),
      Action(Null, Num(90), Num(90), Num(90), Num(90), Null) }

\* rdf['CAV'] = rdf.apply(calculate_cav, axis=1)
CavColumn(log) == [i \in 1..Len(log) |-> calculate_cav(log[i])]

RECURSIVE SumSeq(_)
SumSeq(q) == IF q = <<>> THEN 0 ELSE q[1] + SumSeq(Tail(q))

\* The high-impact test with the boundary 7.0 excluded.
IsHighImpactStrict(c) == c > HIS_THRESHOLD

\* rdf['CAV'] >= 7.0
IsHighImpact(c) == c >= HIS_THRESHOLD

\* rdf['CAV'].mean()
AqcOf(cavs) == (SumSeq(cavs) * MeanUnit) \div Len(cavs)

\* (len(rdf[rdf['CAV'] >= 7.0]) / len(rdf)) * 100
HisOf(cavs) ==
    ((Cardinality({i \in 1..Len(cavs) : IsHighImpact(cavs[i])}) * MeanUnit) \div Len(cavs)) * 100

\* Tab 4 of one run, the editor returning ed_cav: the log is ed_cav, and the
\* metrics are computed and stored only when it is not empty.
ActionLogTab(ed_cav) ==
    /\ match_data' = ed_cav
    /\ IF ed_cav # <<>>
       THEN /\ calc_aqc' = <<AqcOf(CavColumn(ed_cav))>>
            /\ calc_his' = <<HisOf(CavColumn(ed_cav))>>
       ELSE UNCHANGED <<calc_aqc, calc_his>>

\* float(st.session_state.get('calc_aqc', 5.5)), in the unit of AQC
PrefillAQC == IF calc_aqc = <<>> THEN NEUTRAL_CAV * MeanUnit ELSE calc_aqc[1]

\* float(st.session_state.get('calc_his', 20.0)), in the unit of HIS
PrefillHIS == IF calc_his = <<>> THEN 20 * MeanUnit ELSE calc_his[1]

---------------------------------------------------------------------------
(* Initial state: a first run with no data files, nothing selected.        *)

InitSidebar == active_player = "None" /\ m_label = "None"

InitLog == match_data = <<>> /\ calc_aqc = <<>> /\ calc_his = <<>>

InitRatingTab == rating = DefaultRating /\ final = <<>>

InitHistory == general_mprs = <<>> /\ now = 0

InitStats == stats = <<>> /\ last_update = [pr \in Players \X Matches |-> <<>>]

InitCall == row = <<>> /\ cav = <<>>

Init == InitSidebar /\ InitLog /\ InitRatingTab /\ InitHistory /\ InitStats /\ InitCall

---------------------------------------------------------------------------
(* Operations.  Each is one interaction and the run of the script it       *)
(* triggers (with the rerun a st.rerun() asks for).                        *)

\* Sidebar: choose a player (or "None").
SelectPlayer(p) ==
    /\ p # active_player
    /\ active_player' = p
    /\ final' = RatingTab(p, rating)
    /\ UNCHANGED <<m_label, match_data, calc_aqc, calc_his, rating, general_mprs,
                   now, stats, last_update, row, cav>>

\* Sidebar: choose a match (or "None").
SelectMatch(l) ==
    /\ l # m_label
    /\ m_label' = l
    /\ UNCHANGED <<active_player, match_data, calc_aqc, calc_his, rating, final,
                   general_mprs, now, stats, last_update, row, cav>>

\* Tab 4, data editor: a row is added at the end.
AddRow(r) ==
    /\ Len(match_data) < MaxLog
    /\ ActionLogTab(Append(match_data, r))
    /\ UNCHANGED <<active_player, m_label, rating, final, general_mprs, now, stats,
                   last_update, row, cav>>

\* Tab 4, data editor: the cells of row i are edited.
EditRow(i, r) ==
    /\ i \in 1..Len(match_data)
    /\ match_data[i] # r
    /\ ActionLogTab([match_data EXCEPT ![i] = r])
    /\ UNCHANGED <<active_player, m_label, rating, final, general_mprs, now, stats,
                   last_update, row, cav>>

\* Tab 4, data editor: row i is deleted.
DeleteRow(i) ==
    /\ i \in 1..Len(match_data)
    /\ ActionLogTab(SubSeq(match_data, 1, i - 1) \o SubSeq(match_data, i + 1, Len(match_data)))
    /\ UNCHANGED <<active_player, m_label, rating, final, general_mprs, now, stats,
                   last_update, row, cav>>

\* Tab 4, "Clear Log": the log is replaced by an empty frame and the script
\* reruns; the editor then returns the empty frame.
ClearLog ==
    /\ ActionLogTab(<<>>)
    /\ UNCHANGED <<active_player, m_label, rating, final, general_mprs, now, stats,
                   last_update, row, cav>>

\* Tab 5: the user sets the widgets to inp; the run computes the rating.
\* calc_aqc, calc_his and get_calculated_om only pre-fill the AQC, HIS and OM
\* widgets (PrefillAQC, PrefillHIS); the user may enter any value in range.
SetRating(inp) ==
    /\ active_player # "None"
    /\ inp # rating
    /\ rating' = inp
    /\ final' = RatingTab(active_player, inp)
    /\ UNCHANGED <<active_player, m_label, match_data, calc_aqc, calc_his,
                   general_mprs, now, stats, last_update, row, cav>>

\* The entry put in front of the history.
SaveEntryFirst(h, e) == <<e>> \o h

\* st.session_state.general_mprs.append(entry)
SaveEntry(h, e) == Append(h, e)

\* Tab 5, "Save": the run computes final from the widgets and appends the entry.
Save ==
    /\ active_player # "None"
    /\ Len(general_mprs) < MaxHist
    /\ now < MaxClock
    /\ final' = RatingTab(active_player, rating)
    /\ general_mprs' = SaveEntry(general_mprs,
            [Player |-> active_player, Match |-> m_label, MPR |-> final'[1],
             Timestamp |-> now, Role |-> rating.role])
    /\ now' = now + 1
    /\ UNCHANGED <<active_player, m_label, match_data, calc_aqc, calc_his, rating,
                   stats, last_update, row, cav>>

\* Tab 6, "Delete All": shown while the history is not empty.
DeleteAll ==
    /\ general_mprs # <<>>
    /\ general_mprs' = <<>>
    /\ UNCHANGED <<active_player, m_label, match_data, calc_aqc, calc_his, rating,
                   final, now, stats, last_update, row, cav>>

\* Tab 7, "Update" with the form's Goals and Assists (integers >= 0): the
\* record of the selected player and match is created or replaced.
Update(g, a) ==
    /\ active_player # "None"
    /\ active_m_id # <<>>
    /\ LET id == active_m_id[1]
           k == StatKey(active_player, id)
       IN  /\ k \in DOMAIN stats \/ Cardinality(DOMAIN stats) < MaxStats
           /\ stats' = [x \in DOMAIN stats \cup {k} |->
                           IF x = k THEN StatRecord(active_player, id, m_label, g, a)
                           ELSE stats[x]]
           /\ last_update' = [last_update EXCEPT ![<<active_player, id>>] = <<g, a>>]
    /\ UNCHANGED <<active_player, m_label, match_data, calc_aqc, calc_his, rating,
                   final, general_mprs, now, row, cav>>

\* Tab 9, "Delete Selected Stats" with the labels sel_stats chosen in the
\* multiselect: shown while the store is not empty.
DeleteSelectedStats(sel_stats) ==
    /\ DOMAIN stats # {}
    /\ sel_stats \subseteq StatLabels
    /\ LET gone == {lbl_to_key(l) : l \in sel_stats}
       IN  stats' = [x \in DOMAIN stats \ gone |-> stats[x]]
    /\ last_update' = [pr \in DOMAIN last_update |->
                          IF \E l \in sel_stats : pr = <<l[1], MatchIdOf(l[2])>>
                          THEN <<>> ELSE last_update[pr]]
    /\ UNCHANGED <<active_player, m_label, match_data, calc_aqc, calc_his, rating,
                   final, general_mprs, now, row, cav>>

\* A call of calculate_cav on the row.
CallCalculateCav ==
    /\ cav = <<>>
    /\ cav' = <<calculate_cav(row)>>
    /\ UNCHANGED <<active_player, m_label, match_data, calc_aqc, calc_his, rating,
                   final, general_mprs, now, stats, last_update, row>>

\* A run of tab 5 on the widgets' values.
RunRatingTab ==
    /\ active_player # "None"
    /\ final = <<>>
    /\ final' = RatingTab(active_player, rating)
    /\ UNCHANGED <<active_player, m_label, match_data, calc_aqc, calc_his, rating,
                   general_mprs, now, stats, last_update, row, cav>>

---------------------------------------------------------------------------
(* Inputs.                                                                 *)

\* Values a user gives the Rating tab in the session: the defaults, the
\* documented match as CM / 8, and a DM / 6 rating with OM 1.5.
RatingInputs ==
    { DefaultRating,
      RatingInput("CM / 8", R4(62917), R4(333000), R4(750000), R4(500000), R4(100000), OmUnit),
      RatingInput("DM / 6", R4(100000), R4(0), R4(1000000), R4(500000), R4(0), (15 * OmUnit) \div 10) }

\* AQC in [1, 10]: the bounds, 6.2917 and 18.875/3 = 151/24.
AqcInputs == {R4(10000), R4(62917), (151 * RatingUnit) \div 24, R4(100000)}
\* HIS in [0, 100]: the bounds, 33.3 and 100/3.
HisInputs == {R4(0), R4(333000), (100 * RatingUnit) \div 3, R4(1000000)}
EcInputs == {R4(0), R4(750000), R4(1000000)}
TiiInputs == {R4(0), R4(500000), R4(1000000)}
IbiInputs == {R4(0), R4(100000), R4(1000000)}
\* OM in [0.5, 1.5]
OmInputs == {(5 * OmUnit) \div 10, OmUnit, (15 * OmUnit) \div 10}

RatingGrid ==
    { RatingInput(r, q, h, e, t, i, o) :
        r \in Roles, q \in AqcInputs, h \in HisInputs, e \in EcInputs,
        t \in TiiInputs, i \in IbiInputs, o \in OmInputs }

\* Goals and Assists of the stats form: integers >= 0.
GoalInputs == 0..MaxGoals
AssistInputs == {0, 1}

\* A cell of a row given to calculate_cav, or <<>> for a key the row lacks.
QualityChoices ==
    {<<>>, <<Null>>, <<Str("abc")>>, <<Str("8.5")>>, <<Num(10)>>, <<Num(70)>>, <<Num(100)>>}

MistakeChoices ==
    {<<>>, <<Null>>, <<Str("None")>>, <<Str("Type A (Decision)")>>,
     <<Str("Type B (Execution)")>>, <<Str("Type C (Forced)")>>, <<Str("Type D (Other)")>>}

RowOf(dq, eq, cd, ta, lop, mistake) ==
    LET f == [c \in QualityFields \cup {"Mistake Type"} |->
                CASE c = "DQ" -> dq
                  [] c = "EQ" -> eq
                  [] c = "CD" -> cd
                  [] c = "TA" -> ta
                  [] c = "LOP" -> lop
                  [] c = "Mistake Type" -> mistake]
    IN  [c \in {x \in DOMAIN f : f[x] # <<>>} |-> f[c][1]]

---------------------------------------------------------------------------
(* Specifications.                                                         *)

\* The application: every operation.
Next ==
    \/ \E p \in Players \cup {"None"} : SelectPlayer(p)
    \/ \E l \in MatchLabels \cup {"None"} : SelectMatch(l)
    \/ \E r \in LogRows : AddRow(r)
    \/ \E i \in 1..MaxLog, r \in LogRows : EditRow(i, r)
    \/ \E i \in 1..MaxLog : DeleteRow(i)
    \/ ClearLog
    \/ \E inp \in RatingInputs : SetRating(inp)
    \/ Save
    \/ DeleteAll
    \/ \E g \in GoalInputs, a \in AssistInputs : Update(g, a)
    \/ \E sel \in SUBSET StatLabels : DeleteSelectedStats(sel)

Spec == Init /\ [][Next]_vars

\* calculate_cav as a function of its argument.
InitCAV ==
    /\ InitSidebar /\ InitLog /\ InitRatingTab /\ InitHistory /\ InitStats
    /\ cav = <<>>
    /\ \E dq \in QualityChoices, eq \in QualityChoices, cd \in QualityChoices,
          ta \in QualityChoices, lop \in QualityChoices, mistake \in MistakeChoices :
            row = RowOf(dq, eq, cd, ta, lop, mistake)

NextCAV == CallCalculateCav

SpecCAV == InitCAV /\ [][NextCAV]_vars

\* The Rating tab as a function of its widgets.
InitRating ==
    /\ active_player \in Players /\ m_label = "None"
    /\ InitLog /\ InitHistory /\ InitStats /\ InitCall
    /\ rating \in RatingGrid
    /\ final = <<>>

NextRating == RunRatingTab

SpecRating == InitRating /\ [][NextRating]_vars

\* Tab 4: the action log.
NextLog ==
    \/ \E r \in LogRows : AddRow(r)
    \/ \E i \in 1..MaxLog, r \in LogRows : EditRow(i, r)
    \/ \E i \in 1..MaxLog : DeleteRow(i)
    \/ ClearLog

SpecLog == Init /\ [][NextLog]_vars

\* Tabs 7 and 9: the stats store.
NextStats ==
    \/ \E p \in Players \cup {"None"} : SelectPlayer(p)
    \/ \E l \in MatchLabels \cup {"None"} : SelectMatch(l)
    \/ \E g \in GoalInputs, a \in AssistInputs : Update(g, a)
    \/ \E sel \in SUBSET StatLabels : DeleteSelectedStats(sel)

SpecStats == Init /\ [][NextStats]_vars

\* Tabs 5 and 6: the MPR history.
NextHistory ==
    \/ \E p \in Players \cup {"None"} : SelectPlayer(p)
    \/ \E l \in MatchLabels \cup {"None"} : SelectMatch(l)
    \/ \E inp \in RatingInputs : SetRating(inp)
    \/ Save
    \/ DeleteAll

SpecHistory == Init /\ [][NextHistory]_vars

---------------------------------------------------------------------------
(* Properties.                                                             *)

\* Every quality field of the row is present and a number.
AllNumeric(r) == \A f \in QualityFields : f \in DOMAIN r /\ r[f].k = "num"

\* The mistake type of the row as text ("" when the cell is no string).
MistakeText(r) ==
    LET c == Get(r, "Mistake Type", Str("None")) IN IF c.k = "str" THEN c.s ELSE ""

\* The documented cap table, in tenths.
DocCap(t) ==
    CASE t = "Type A (Decision)" -> 40
      [] t = "Type B (Execution)" -> 83
      [] t = "Type C (Forced)" -> 70
      [] OTHER -> 100

\* 8 * rawScore of five field values in tenths, in hundredths:
\* 8 * rawScore = 2*DQ + 2*EQ + 1.5*CD + 1.5*TA + 1*LOP.
DocRaw8(dq, eq, cd, ta, lop) == 20 * dq + 20 * eq + 15 * cd + 15 * ta + 10 * lop

\* The row with its mistake type set to t.
WithMistake(r, t) ==
    [c \in DOMAIN r \cup {"Mistake Type"} |-> IF c = "Mistake Type" THEN Str(t) ELSE r[c]]

\* C1: for a row whose five quality fields are numbers and any mistake type
\* (absent, None and unrecognized included), calculate_cav returns
\* min(rawScore, cap) with rawScore = (2DQ + 2EQ + 1.5CD + 1.5TA + LOP)/8 and cap
\* 4.0 / 8.3 / 7.0 for Type A / B / C and 10.0 otherwise.
C1_CavIsCappedRaw ==
    (cav # <<>> /\ AllNumeric(row)) =>
        LET raw8 == DocRaw8(row["DQ"].v, row["EQ"].v, row["CD"].v, row["TA"].v, row["LOP"].v)
            cap == DocCap(MistakeText(row))
        IN  \* cav/CavUnit = min(raw8/800, cap/10)
            cav[1] * 800 = Min(raw8 * CavUnit, cap * 80 * CavUnit)

\* A Type B row of numbers whose raw score (10.0) exceeds the cap: the result is 8.3.
C1_Witness ==
    /\ cav # <<>> /\ AllNumeric(row)
    /\ MistakeText(row) = "Type B (Execution)"
    /\ \A f \in QualityFields : row[f].v = 100
    /\ cav[1] * 10 = 83 * CavUnit

\* C2 as stated: for identical quality fields and a raw score above 4.0,
\* CAV(Type A) <= CAV(Type B) <= CAV(Type C) <= CAV(None).
C2_CapOrderABC ==
    (cav # <<>> /\ AllNumeric(row) /\ calculate_cav(WithMistake(row, "None")) > 4 * CavUnit) =>
        /\ calculate_cav(WithMistake(row, "Type A (Decision)"))
              <= calculate_cav(WithMistake(row, "Type B (Execution)"))
        /\ calculate_cav(WithMistake(row, "Type B (Execution)"))
              <= calculate_cav(WithMistake(row, "Type C (Forced)"))
        /\ calculate_cav(WithMistake(row, "Type C (Forced)"))
              <= calculate_cav(WithMistake(row, "None"))

\* C2 amended: for identical quality fields and a raw score above 4.0,
\* CAV(Type A) <= CAV(Type C) <= CAV(Type B) <= CAV(None); the result of the
\* call is the one of these that belongs to the row's mistake type.
C2_CapOrderACB ==
    (cav # <<>> /\ AllNumeric(row) /\ calculate_cav(WithMistake(row, "None")) > 4 * CavUnit) =>
        /\ calculate_cav(WithMistake(row, "Type A (Decision)"))
              <= calculate_cav(WithMistake(row, "Type C (Forced)"))
        /\ calculate_cav(WithMistake(row, "Type C (Forced)"))
              <= calculate_cav(WithMistake(row, "Type B (Execution)"))
        /\ calculate_cav(WithMistake(row, "Type B (Execution)"))
              <= calculate_cav(WithMistake(row, "None"))
        /\ MistakeText(row) \in {"Type A (Decision)", "Type B (Execution)", "Type C (Forced)"}
              => cav[1] = calculate_cav(WithMistake(row, MistakeText(row)))

\* A Type B row of numbers scored above 7.0, the value a Type C row is capped at.
C2_Witness ==
    /\ cav # <<>> /\ AllNumeric(row)
    /\ MistakeText(row) = "Type B (Execution)"
    /\ cav[1] > 7 * CavUnit
    /\ calculate_cav(WithMistake(row, "Type C (Forced)")) = 7 * CavUnit

\* The value of a quality field after the documented substitution, in tenths:
\* 5.5 for a field that is missing, None or no number.
Substituted(r, f) ==
    IF f \in DOMAIN r /\ Float(r[f]) # <<>> THEN Float(r[f])[1] ELSE 55

\* C6 as stated: calculate_cav never raises, and a row with missing, None or
\* non-numeric quality fields is scored with 5.5 in the place of each such
\* field, the other fields keeping their values, and the mistake cap applied.
C6_FieldwiseSubstitution ==
    cav # <<>> =>
        LET raw8 == DocRaw8(Substituted(row, "DQ"), Substituted(row, "EQ"),
                            Substituted(row, "CD"), Substituted(row, "TA"),
                            Substituted(row, "LOP"))
            cap == DocCap(MistakeText(row))
        IN  cav[1] * 800 = Min(raw8 * CavUnit, cap * 80 * CavUnit)

\* The sum of the five weights of a role.
WeightSum(w) == w.wAQC + w.wHIS + w.wEC + w.wTII + w.wIBI

\* C3: the table has the five roles, and the weights the Rating tab has read
\* for its role are non-negative and sum to 1.0.
C3_WeightsSumToOne ==
    final # <<>> =>
        /\ DOMAIN ROLE_WEIGHTS = {"CF / Striker", "Winger", "AM / 10", "CM / 8", "DM / 6"}
        /\ LET w == ROLE_WEIGHTS[rating.role]
           IN  /\ \A x \in {w.wAQC, w.wHIS, w.wEC, w.wTII, w.wIBI} : x >= 0
               /\ WeightSum(w) = WeightUnit

\* The documented rating, SCI and PI given:
\* (wAQC*(AQC*10) + wHIS*HIS + wEC*(EC*SCI) + wTII*TII + wIBI*IBI) * OM * PI.
DocMPR(rt, sci, pi) ==
    LET w == ROLE_WEIGHTS[rt.role]
    IN  (w.wAQC * (rt.m_aqc * 10) + w.wHIS * rt.m_his + w.wEC * (rt.m_ec * sci)
            + w.wTII * rt.m_tii + w.wIBI * rt.m_ibi) * rt.om * pi

\* CM / 8 with AQC 6.2917, HIS 33.3, EC 75, TII 50, IBI 10, OM 1.0.
RoundedExample ==
    RatingInput("CM / 8", R4(62917), R4(333000), R4(750000), R4(500000), R4(100000), OmUnit)

\* CM / 8 with AQC 18.875/3, HIS 100/3, EC 75, TII 50, IBI 10, OM 1.0.
ExactExample ==
    RatingInput("CM / 8", (151 * RatingUnit) \div 24, (100 * RatingUnit) \div 3,
                R4(750000), R4(500000), R4(100000), OmUnit)

\* C4 as stated: the rating is the documented formula with SCI = PI = 1.0, and
\* for CM / 8 with AQC 6.2917, HIS 33.3, EC 75, TII 50, IBI 10, OM 1.0 it is 56.875.
C4_MprFormulaAndExample ==
    final # <<>> =>
        /\ final[1] = DocMPR(rating, 1, 1)
        /\ rating = RoundedExample => final[1] = 56875 * (MprUnit \div 1000)

\* C4 amended: the rating is the documented formula with SCI = PI = 1.0; for
\* CM / 8 with AQC 6.2917, HIS 33.3, EC 75, TII 50, IBI 10, OM 1.0 it is 56.8701,
\* and it is 56.875 for the unrounded AQC 18.875/3 and HIS 100/3.
C4_MprFormulaAndExactExample ==
    final # <<>> =>
        /\ final[1] = DocMPR(rating, 1, 1)
        /\ rating = RoundedExample => final[1] = 568701 * (MprUnit \div 10000)
        /\ rating = ExactExample => final[1] = 56875 * (MprUnit \div 1000)

\* The rating computed for the rounded example.
C4_Witness == final # <<>> /\ rating = RoundedExample

\* The three actions of the documented match, in order.
DocumentedMatch ==
    << Action(Num(70), Num(80), Num(50), Num(60), Num(40), Str("None")),
       Action(Num(90), Num(90), Num(80), Num(90), Num(70), Str("None")),
       Action(Num(40), Num(50), Num(60), Num(50), Num(60), Str("Type A (Decision)")) >>

\* C5: while the log is not empty, AQC is the arithmetic mean of calculate_cav
\* over its rows and HIS the percentage of rows with CAV >= 7.0; for the
\* documented match the CAVs are 6.3125, 8.5625, 4.0, AQC is 18.875/3 and HIS
\* is a third (100/3 percent).
C5_AqcIsMeanHisIsShare ==
    match_data # <<>> =>
        LET n == Len(match_data)
            c == [i \in 1..n |-> calculate_cav(match_data[i])]
            high == {i \in 1..n : c[i] >= 7 * CavUnit}
        IN  /\ calc_aqc # <<>> /\ calc_his # <<>>
            /\ calc_aqc[1] * n = SumSeq(c) * MeanUnit
            /\ calc_his[1] * n = Cardinality(high) * 100 * MeanUnit
            /\ match_data = DocumentedMatch =>
                  /\ c = << (63125 * CavUnit) \div 10000, (85625 * CavUnit) \div 10000,
                            4 * CavUnit >>
                  /\ calc_aqc[1] * 3 * 1000 = 18875 * CavUnit * MeanUnit
                  /\ calc_his[1] * 3 = 100 * MeanUnit

\* The documented match in the log, aggregated.
C5_Witness == match_data = DocumentedMatch /\ calc_aqc # <<>> /\ calc_his # <<>>

\* C7 as stated: while the log is empty, the metrics the Rating tab is given
\* are the neutral result: AQC absent or 0, HIS absent or 0.
C7_EmptyLogNeutralMetrics ==
    match_data = <<>> =>
        /\ calc_aqc = <<>> \/ PrefillAQC = 0
        /\ calc_his = <<>> \/ PrefillHIS = 0

\* The multiplier of goals and assists as documented, in twentieths:
\* min(1.0 + 0.1*goals + 0.05*assists, 1.5).
DocOm(g, a) == Min(20 + 2 * g + a, 30)

\* The result for the pair a stat record is stored for.
OmOfRecord(v) == get_calculated_om(v.Player, <<v.MatchID>>)

\* C8: for a stored record, get_calculated_om is min(1.0 + 0.1*goals +
\* 0.05*assists, 1.5), lies in [1.0, 1.5], and does not decrease from one
\* record to another with more goals and the same assists, or more assists and
\* the same goals.
C8_OmFormulaRangeMonotone ==
    \A k1 \in DOMAIN stats :
        LET v1 == stats[k1] IN
        /\ v1.Goals >= 0 /\ v1.Assists >= 0
        /\ OmOfRecord(v1) * 20 = DocOm(v1.Goals, v1.Assists) * OmUnit
        /\ OmUnit <= OmOfRecord(v1) /\ OmOfRecord(v1) * 10 <= 15 * OmUnit
        /\ \A k2 \in DOMAIN stats :
              LET v2 == stats[k2] IN
              /\ (v1.Goals <= v2.Goals /\ v1.Assists = v2.Assists)
                    => OmOfRecord(v1) <= OmOfRecord(v2)
              /\ (v1.Assists <= v2.Assists /\ v1.Goals = v2.Goals)
                    => OmOfRecord(v1) <= OmOfRecord(v2)

\* Two records with the same assists: one below the cap, one with more goals
\* whose uncapped value 1.0 + 0.5 + 0.05 exceeds 1.5 and is capped.
C8_Witness ==
    \E k1 \in DOMAIN stats, k2 \in DOMAIN stats :
        /\ stats[k1].Assists = 1 /\ stats[k2].Assists = 1
        /\ stats[k1].Goals = 1 /\ stats[k2].Goals = 5
        /\ OmOfRecord(stats[k1]) * 20 = 23 * OmUnit
        /\ OmOfRecord(stats[k2]) * 10 = 15 * OmUnit

\* C9: get_calculated_om(player, match) is 1.0 when no player or no match is
\* selected and when the pair has no record (never updated, or deleted since
\* its last Update); otherwise it is the multiplier of the goals and assists of
\* the pair's latest Update, whatever the records of the other pairs.
C9_OmOfLatestUpdateOfPair ==
    \A p \in Players \cup {"None"}, m \in {<<>>} \cup {<<id>> : id \in Matches} :
        get_calculated_om(p, m) * 20 =
            OmUnit * ( IF p = "None" \/ m = <<>> THEN 20
                       ELSE IF last_update[<<p, m[1]>>] = <<>> THEN 20
                       ELSE DocOm(last_update[<<p, m[1]>>][1], last_update[<<p, m[1]>>][2]) )

\* Silva has a record with a bonus for match 2 and none for match 1, Costa has
\* one for match 1: the multiplier of (Silva, 1) is 1.0.
C9_Witness ==
    /\ last_update[<<"Silva", 1>>] = <<>>
    /\ last_update[<<"Silva", 2>>] = <<3, 1>>
    /\ last_update[<<"Costa", 1>>] = <<2, 0>>
    /\ get_calculated_om("Silva", <<1>>) = OmUnit
    /\ get_calculated_om("Silva", <<2>>) * 20 = 27 * OmUnit
    /\ StatKey("Silva", 1) \notin DOMAIN stats

\* h is a prefix of g.
IsPrefix(h, g) == Len(h) <= Len(g) /\ SubSeq(g, 1, Len(h)) = h

\* The entry a Save of this step appends.
SavedEntry ==
    [Player |-> active_player, Match |-> m_label, MPR |-> final'[1],
     Timestamp |-> now, Role |-> rating.role]

\* C10 as stated: every step leaves the history a prefix of the new history,
\* and a step that changes it appends one entry {Player, Match, MPR,
\* Timestamp, Role} at its end.
C10_HistoryAppendOnly ==
    [][ /\ IsPrefix(general_mprs, general_mprs')
        /\ general_mprs' # general_mprs =>
              (active_player # "None" /\ general_mprs' = Append(general_mprs, SavedEntry))
      ]_vars

\* C10 amended: a step that changes the history either appends one entry
\* {Player, Match, MPR, Timestamp, Role} at its end (Save), the entries before
\* it unchanged, or empties the history (Delete All); no step removes or
\* modifies a single entry.
C10_HistoryAppendOrDeleteAll ==
    [][ general_mprs' # general_mprs =>
          \/ /\ active_player # "None"
             /\ general_mprs' = Append(general_mprs, SavedEntry)
             /\ DOMAIN SavedEntry = {"Player", "Match", "MPR", "Timestamp", "Role"}
          \/ /\ general_mprs # <<>>
             /\ general_mprs' = <<>>
      ]_vars

\* Two entries saved after an earlier entry was deleted by Delete All.
C10_Witness ==
    /\ Len(general_mprs) = 2
    /\ general_mprs[1].Timestamp = 1
    /\ general_mprs[2].Timestamp = 2

=============================================================================
